---- MODULE Spec2Model ----
(***************************************************************************)
(* State-surveillance data-freshness pipeline of the measles dashboard:    *)
(* the CDC epi-week computation, the six state scrapes, the Historical     *)
(* Ledger (data/southwest_measles_weekly.csv) and its previous-week        *)
(* lookup, the source fetch with its backup store, and the reconciliation  *)
(* of the state map, as implemented by DataManager in src/data_manager.py  *)
(* (the scraper code is duplicated in src/state_data_scraper.py), main in  *)
(* src/main.py and the case rate of the renderers.                         *)
(***************************************************************************)
EXTENDS Integers, Sequences, FiniteSets, TLC

(***************************************************************************)
(* Bounds of the model.                                                    *)
(***************************************************************************)
\* calendar year on whose last day the clock of a behaviour starts
FirstYear == 2025
\* number of pipeline runs in one behaviour
MaxRuns == 2
\* largest case count a state page reports
MaxCases == 1
\* number of runs of main in one behaviour
MaxFetchRuns == 3
\* number of direct save_backup calls in one behaviour
MaxSaves == 2
\* number of rows of the state map cases table
MaxMapRows == 2
\* number of calendar years after FirstYear whose dates a run is tried on
YearSpan == 28

\* Python's None and Optional values: None is the empty sequence, a value
\* x that is present is Some(x)
None == <<>>
Some(x) == <<x>>
NaN == "NaN"
NoMatch == -1

(***************************************************************************)
(* Calendar arithmetic of datetime: a date is [year, doy] with doy the     *)
(* day of the year (1 = January 1).                                        *)
(***************************************************************************)
IsLeap(y) == (y % 4 = 0 /\ y % 100 # 0) \/ y % 400 = 0

DaysInYear(y) == IF IsLeap(y) THEN 366 ELSE 365

\* days before January 1 of year y (proleptic Gregorian ordinal - doy)
DaysBeforeYear(y) ==
    LET p == y - 1 IN p * 365 + (p \div 4) - (p \div 100) + (p \div 400)

toordinal(d) == DaysBeforeYear(d.year) + d.doy

\* datetime.weekday(): Monday = 0 ... Sunday = 6
weekday(d) == (toordinal(d) + 6) % 7

Date(y, n) == [year |-> y, doy |-> n]

RECURSIVE Normalize(_, _)
Normalize(y, n) ==
    IF n > DaysInYear(y) THEN Normalize(y + 1, n - DaysInYear(y))
    ELSE IF n < 1 THEN Normalize(y - 1, n + DaysInYear(y - 1))
    ELSE Date(y, n)

\* date + timedelta(days = n)
AddDays(d, n) == Normalize(d.year, d.doy + n)

(***************************************************************************)
(* DataManager.get_current_epi_week, with datetime.now() passed in.        *)
(***************************************************************************)
\* week 1 anchored on the Monday instead of the Sunday on or before Jan 4
get_current_epi_week_monday(now_date) ==
    LET jan4_weekday     == weekday(Date(now_date.year, 4))
        days_diff        == now_date.doy - (4 - jan4_weekday)
        current_epi_week == (days_diff \div 7) + 1
        next_jan4_weekday == weekday(Date(now_date.year + 1, 4))
    IN  IF current_epi_week <= 0
            THEN <<52, now_date.year - 1>>
        ELSE IF current_epi_week >= 53
            THEN IF next_jan4_weekday <= 3
                     THEN <<1, now_date.year + 1>>
                     ELSE <<53, now_date.year>>
        ELSE <<current_epi_week, now_date.year>>

\* no handling of the year boundaries
get_current_epi_week_unbounded(now_date) ==
    LET jan4_weekday     == weekday(Date(now_date.year, 4))
        back             == IF jan4_weekday = 6 THEN 0 ELSE (jan4_weekday + 1) % 7
        days_diff        == now_date.doy - (4 - back)
    IN  <<(days_diff \div 7) + 1, now_date.year>>

get_current_epi_week(now_date) ==
    LET jan4             == Date(now_date.year, 4)
        jan4_weekday     == weekday(jan4)
        back             == IF jan4_weekday = 6 THEN 0 ELSE (jan4_weekday + 1) % 7
        \* (today - week1_sunday).days, week1_sunday = jan4 - back days
        days_diff        == now_date.doy - (4 - back)
        current_epi_week == (days_diff \div 7) + 1
        next_jan4_weekday == weekday(Date(now_date.year + 1, 4))
    IN  IF current_epi_week <= 0
            THEN <<52, now_date.year - 1>>
        ELSE IF current_epi_week >= 53
            THEN IF next_jan4_weekday <= 3
                     THEN <<1, now_date.year + 1>>
                     ELSE <<53, now_date.year>>
        ELSE <<IF current_epi_week < 53 THEN current_epi_week ELSE 53, now_date.year>>

(***************************************************************************)
(* State configuration (DataManager.__init__) and the per-state scrapers.  *)
(***************************************************************************)
\* iteration order of the scrapers dict of scrape_all_states
StateOrder == <<"TX", "NM", "UT", "CA", "NV", "AZ">>

States == {StateOrder[i] : i \in DOMAIN StateOrder}

state_configs ==
    [s \in States |->
        CASE s = "TX" -> [name |-> "Texas",
                          agency |-> "Texas Department of State Health Services",
                          update_schedule |-> "Weekly on Tuesdays",
                          url |-> "https://www.dshs.texas.gov/news-alerts/measles-outbreak-2025"]
          [] s = "NM" -> [name |-> "New Mexico",
                          agency |-> "New Mexico Department of Health",
                          update_schedule |-> "Tuesday and Friday before noon MST",
                          url |-> "https://www.nmhealth.org/about/erd/ideb/mog/"]
          [] s = "UT" -> [name |-> "Utah",
                          agency |-> "Utah Department of Health and Human Services",
                          update_schedule |-> "Weekdays by 3:00 PM MST",
                          url |-> "https://epi.utah.gov/measles-response/"]
          [] s = "CA" -> [name |-> "California",
                          agency |-> "California Department of Public Health",
                          update_schedule |-> "Weekly",
                          url |-> "https://www.cdph.ca.gov/Programs/CID/DCDC/Pages/Immunization/measles.aspx"]
          [] s = "NV" -> [name |-> "Nevada",
                          agency |-> "Nevada Division of Public and Behavioral Health",
                          update_schedule |-> "Weekly",
                          url |-> "https://dpbh.nv.gov/Reg/CD/measles/"]
          [] s = "AZ" -> [name |-> "Arizona",
                          agency |-> "Arizona Department of Health Services",
                          update_schedule |-> "Weekly",
                          url |-> "https://www.azdhs.gov/preparedness/epidemiology-disease-control/infectious-disease-epidemiology/index.php#communicable-diseases"]]

\* number of entries of case_patterns in each scraper (Nevada and Arizona
\* have no pattern: their count is the constant 0)
case_patterns == [s \in States |-> IF s \in {"NV", "AZ"} THEN 0 ELSE 3]

\* datetime.now().strftime('%Y-%m-%d %H:%M:%S') and pd.to_datetime: the
\* text of a timestamp and the timestamp are different values
strftime(t) == [text |-> t]
to_datetime(x) == [ts |-> x.text]
datetime_to_text(x) == [text |-> x.ts]

(***************************************************************************)
(* What a state's web site answers: Fail when the GET or raise_for_status  *)
(* raises, otherwise the page text, seen through the state's patterns:     *)
(* page[i] is the number captured by re.search of pattern i, or NoMatch.   *)
(***************************************************************************)
Fail == [ok |-> FALSE]
Page(p) == [ok |-> TRUE, page |-> p]

Pages(s) == [1 .. case_patterns[s] -> {NoMatch} \cup (0 .. MaxCases)]

\* the loop without its break: the last pattern that matches
RECURSIVE last_match(_, _)
last_match(page, i) ==
    IF i > Len(page) THEN 0
    ELSE IF \E k \in (i + 1) .. Len(page) : page[k] # NoMatch THEN last_match(page, i + 1)
    ELSE IF page[i] # NoMatch THEN page[i]
    ELSE 0

\* the loop with no initial value of the count: no match leaves it unset
RECURSIVE first_match_unset(_, _)
first_match_unset(page, i) ==
    IF i > Len(page) THEN NoMatch
    ELSE IF page[i] # NoMatch THEN page[i]
    ELSE first_match_unset(page, i + 1)

\* the for/break loop over case_patterns: the first pattern that matches
RECURSIVE first_match(_, _)
first_match(page, i) ==
    IF i > Len(page) THEN 0
    ELSE IF page[i] # NoMatch THEN page[i]
    ELSE first_match(page, i + 1)

\* scrape_texas_data ... scrape_arizona_data: None on any exception
scrape_state_data(s, response, t) ==
    IF ~response.ok THEN None
    ELSE Some([state               |-> s,
               state_name          |-> state_configs[s].name,
               current_week_cases  |-> first_match(response.page, 1),
               previous_week_cases |-> 0,
               data_source         |-> state_configs[s].agency,
               source_url          |-> state_configs[s].url,
               last_updated        |-> strftime(t),
               update_schedule     |-> state_configs[s].update_schedule])

\* a failed scrape marked by a sentinel count instead of 0
zero_filled_sentinel(s, t) ==
    [state               |-> s,
     state_name          |-> state_configs[s].name,
     current_week_cases  |-> -1,
     previous_week_cases |-> 0,
     data_source         |-> state_configs[s].agency,
     source_url          |-> "Data unavailable",
     last_updated        |-> strftime(t),
     update_schedule     |-> state_configs[s].update_schedule]

\* the record scrape_all_states appends when a scraper returned None
zero_filled(s, t) ==
    [state               |-> s,
     state_name          |-> state_configs[s].name,
     current_week_cases  |-> 0,
     previous_week_cases |-> 0,
     data_source         |-> state_configs[s].agency,
     source_url          |-> "Data unavailable",
     last_updated        |-> strftime(t),
     update_schedule     |-> state_configs[s].update_schedule]

Extend(r, epi) ==
    [state               |-> r.state,
     state_name          |-> r.state_name,
     current_week_cases  |-> r.current_week_cases,
     previous_week_cases |-> r.previous_week_cases,
     data_source         |-> r.data_source,
     source_url          |-> r.source_url,
     last_updated        |-> r.last_updated,
     update_schedule     |-> r.update_schedule,
     epi_week            |-> epi[1],
     epi_year            |-> epi[2],
     collection_method   |-> "State health department web scraping",
     attribution         |-> <<"Data courtesy of ", r.data_source>>]

\* scrape_all_states that takes the except/continue branch for a scraper
\* that failed: no record for that state
scrape_all_states_skip_failed(now_date, t, resp) ==
    LET epi == get_current_epi_week(now_date)
        Up(s) == resp[s].ok
    IN  [i \in DOMAIN SelectSeq(StateOrder, Up) |->
            Extend(scrape_state_data(SelectSeq(StateOrder, Up)[i],
                                     resp[SelectSeq(StateOrder, Up)[i]], t)[1], epi)]

\* DataManager.scrape_all_states: one record per scraper, in dict order.
\* No scraper lets an exception out, so the except/continue branch of the
\* loop is never taken.
scrape_all_states(now_date, t, resp) ==
    LET epi == get_current_epi_week(now_date)
    IN  [i \in DOMAIN StateOrder |->
            LET s          == StateOrder[i]
                state_data == scrape_state_data(s, resp[s], t)
            IN  IF state_data # None
                    THEN Extend(state_data[1], epi)
                    ELSE Extend(zero_filled(s, t), epi)]

(***************************************************************************)
(* The Historical Ledger file data/southwest_measles_weekly.csv.           *)
(* status: "absent" (no file), "ok" (a CSV file as to_csv writes it) or    *)
(* "unreadable" (read_csv raises something other than FileNotFoundError:   *)
(* a zero-byte or damaged file, no read permission).                       *)
(***************************************************************************)
AbsentFile == [status |-> "absent", rows |-> <<>>]

\* strings pd.read_csv turns into NaN (the ones that matter here)
na_values == {"", "N/A", "NA", "NULL", "NaN", "None", "n/a", "nan", "null"}

read_cell(v) == IF v \in na_values THEN NaN ELSE v

\* pd.read_csv of the ledger: text cells go through the NA filter
read_csv(file) ==
    [i \in DOMAIN file.rows |->
        [file.rows[i] EXCEPT !.state = read_cell(@),
                             !.state_name = read_cell(@),
                             !.data_source = read_cell(@),
                             !.source_url = read_cell(@),
                             !.update_schedule = read_cell(@),
                             !.collection_method = read_cell(@)]]

\* DataFrame.to_csv: a Timestamp is written as its text
to_csv(df) ==
    [status |-> "ok",
     rows   |-> [i \in DOMAIN df |->
                    [df[i] EXCEPT !.last_updated = datetime_to_text(@)]]]

\* the subset of drop_duplicates without the state
LedgerKey_without_state(r) == <<"", r.epi_week, r.epi_year>>

LedgerKey(r) == <<r.state, r.epi_week, r.epi_year>>

\* rows of a table that carry a key
RowsOf(rows, key) ==
    LET Test(h) == LedgerKey(h) = key
    IN  SelectSeq(rows, Test)

\* drop_duplicates(subset=['state','epi_week','epi_year'], keep='first')
RECURSIVE keep_first(_, _)
keep_first(rows, i) ==
    IF i > Len(rows) THEN <<>>
    ELSE (IF \E j \in 1 .. (i - 1) : LedgerKey(rows[j]) = LedgerKey(rows[i])
              THEN <<>> ELSE <<rows[i]>>) \o keep_first(rows, i + 1)

drop_duplicates_keep_first(rows) == keep_first(rows, 1)

\* no drop_duplicates at all
drop_duplicates_none(rows) == rows

\* drop_duplicates(subset=['state','epi_week','epi_year'], keep='last'): a
\* row stays when no later row has its key; the order of the rows is kept
RECURSIVE keep_last(_, _)
keep_last(rows, i) ==
    IF i > Len(rows) THEN <<>>
    ELSE (IF \E j \in (i + 1) .. Len(rows) : LedgerKey(rows[j]) = LedgerKey(rows[i])
              THEN <<>> ELSE <<rows[i]>>) \o keep_last(rows, i + 1)

drop_duplicates(rows) == keep_last(rows, 1)

\* save_historical_data that leaves a zero-filled record out when the file
\* already holds a row of its key
save_historical_data_keep_scraped(file, df) ==
    IF file.status = "unreadable" THEN file
    ELSE
        LET historical_df ==
                IF file.status = "absent" THEN <<>>
                ELSE [i \in DOMAIN file.rows |->
                         [read_csv(file)[i] EXCEPT !.last_updated = to_datetime(@)]]
            Kept(r) == ~(/\ r.source_url = "Data unavailable"
                         /\ Len(RowsOf(historical_df, LedgerKey(r))) > 0)
            current_df ==
                [i \in DOMAIN SelectSeq(df, Kept) |->
                    [SelectSeq(df, Kept)[i] EXCEPT !.last_updated = to_datetime(@)]]
        IN  to_csv(IF Len(historical_df) > 0
                       THEN drop_duplicates(historical_df \o current_df)
                       ELSE current_df)

\* save_historical_data that writes the current data only
save_historical_data_overwrite(file, df) ==
    IF file.status = "unreadable" THEN file
    ELSE to_csv([i \in DOMAIN df |-> [df[i] EXCEPT !.last_updated = to_datetime(@)]])

\* DataManager.save_historical_data: the file after the call
save_historical_data(file, df) ==
    IF file.status = "unreadable"
        \* read_csv raises, the outer except logs it, nothing is written
        THEN file
    ELSE
        LET parse_dates(rows) ==
                [i \in DOMAIN rows |-> [rows[i] EXCEPT !.last_updated = to_datetime(@)]]
            historical_df ==
                IF file.status = "absent" THEN <<>> ELSE parse_dates(read_csv(file))
            current_df ==
                [i \in DOMAIN df |-> [df[i] EXCEPT !.last_updated = to_datetime(@)]]
            all_data ==
                IF Len(historical_df) > 0
                    THEN drop_duplicates(historical_df \o current_df)
                    ELSE current_df
        IN  to_csv(all_data)

\* rows of historical_df for a state and a week (the year is not compared)
prev_week_data(historical_df, state, week) ==
    LET Test(h) == h.state = state /\ h.epi_week = week
    IN  SelectSeq(historical_df, Test)

\* DataManager.load_weekly_surveillance_data: scrape, save, then fill
\* previous_week_cases from the ledger that was just written
load_weekly_surveillance_data(file, now_date, t, resp) ==
    LET current_data     == scrape_all_states(now_date, t, resp)
        saved            == save_historical_data(file, current_data)
        current_epi_week == current_data[1].epi_week
        historical_df    == read_csv(saved)
        filled ==
            [i \in DOMAIN current_data |->
                LET prev == prev_week_data(historical_df, current_data[i].state,
                                           current_epi_week - 1)
                IN  IF Len(prev) > 0
                        THEN [current_data[i] EXCEPT
                                 !.previous_week_cases = prev[1].current_week_cases]
                        ELSE current_data[i]]
    IN  IF saved.status = "ok"
            THEN [ledger |-> saved, batch |-> current_data, emitted |-> filled,
                  lookup_week |-> Some(current_epi_week - 1)]
            \* read_csv raises: "Could not load historical data for comparison"
            ELSE [ledger |-> saved, batch |-> current_data, emitted |-> current_data,
                  lookup_week |-> None]

\* the six scrapers called in another order than that of the scrapers dict
\* (workers that finish in any order): the loop body of scrape_all_states
\* for each state of the order
scrape_states(state_order, now_date, t, resp) ==
    LET epi == get_current_epi_week(now_date)
    IN  [i \in DOMAIN state_order |->
            LET s          == state_order[i]
                state_data == scrape_state_data(s, resp[s], t)
            IN  IF state_data # None
                    THEN Extend(state_data[1], epi)
                    ELSE Extend(zero_filled(s, t), epi)]

\* load_weekly_surveillance_data on the records of scrape_states
load_weekly_in_order(state_order, file, now_date, t, resp) ==
    LET current_data     == scrape_states(state_order, now_date, t, resp)
        saved            == save_historical_data(file, current_data)
        current_epi_week == current_data[1].epi_week
        historical_df    == read_csv(saved)
        filled ==
            [i \in DOMAIN current_data |->
                LET prev == prev_week_data(historical_df, current_data[i].state,
                                           current_epi_week - 1)
                IN  IF Len(prev) > 0
                        THEN [current_data[i] EXCEPT
                                 !.previous_week_cases = prev[1].current_week_cases]
                        ELSE current_data[i]]
    IN  IF saved.status = "ok"
            THEN [ledger |-> saved, batch |-> current_data, emitted |-> filled,
                  lookup_week |-> Some(current_epi_week - 1)]
            ELSE [ledger |-> saved, batch |-> current_data, emitted |-> current_data,
                  lookup_week |-> None]

\* DataManager.generate_fallback_weekly_data: the week of
\* get_current_epi_week with the calendar year of datetime.now()
generate_fallback_weekly_data(now_date, t) ==
    [i \in DOMAIN StateOrder |->
        LET state_name == state_configs[StateOrder[i]].name
        IN  [state               |-> StateOrder[i],
             state_name          |-> state_name,
             current_week_cases  |-> 0,
             previous_week_cases |-> 0,
             data_source         |-> <<state_name,
                                       " Department of Health (Data temporarily unavailable)">>,
             source_url          |-> "N/A",
             last_updated        |-> strftime(t),
             update_schedule     |-> "Weekly",
             epi_week            |-> get_current_epi_week(now_date)[1],
             epi_year            |-> now_date.year,
             attribution         |-> <<"Data courtesy of ", state_name,
                                       " Department of Health">>]]

\* the reads and writes of the ledger file in one run of
\* load_weekly_surveillance_data: read_csv in save_historical_data (it reads
\* nothing when the file is absent), to_csv unless that read raised, and
\* read_csv again for the previous-week lookup
ledger_io(file) ==
    [reads  |-> (IF file.status = "ok" THEN 1 ELSE 0)
                + (IF file.status = "unreadable" THEN 0 ELSE 1),
     writes |-> IF file.status = "unreadable" THEN 0 ELSE 1]

(***************************************************************************)
(* Source Fetcher and Backup/Restore Store.  A data key is the sequence of *)
(* the "_"-separated parts of its name, so that the glob "<key>_*" of      *)
(* load_backup is a prefix test on parts.                                  *)
(***************************************************************************)
\* self.static_files, in dict order
static_files == << <<"timeline">>, <<"mmr">>, <<"mmr", "map">> >>

\* self.data_sources, in dict order
data_sources ==
    << <<"usmeasles">>, <<"usmap", "cases">>, <<"vaccine", "with">>,
       <<"vaccine", "without">> >>

Range(seq) == {seq[i] : i \in DOMAIN seq}

\* the sources whose url ends with ".json" (download_data returns
\* response.json() for them and pd.read_csv of the body for the others)
json_sources == {data_sources[1], data_sources[2]}

\* what a source serves at wall-clock tick t: rows that are "good" (rows and
\* the expected columns), "empty" (columns, no row), "nocols" (rows
\* without the expected columns) or "blank" (the JSON body [] or {}: a table
\* without columns and without rows)
Served(key, t, shape) == [source |-> key, version |-> t, shape |-> shape]

\* pd.DataFrame(json) / pd.read_csv(text): the table of a payload
DataFrame(payload) == [df |-> payload]

\* DataFrame.to_csv(path, index=False): the text of a table
frame_to_csv(frame) == [csv |-> frame.df]

\* pd.read_csv(path) of a backup file
csv_to_frame(text) == [df |-> text.csv]

\* name of the file save_backup writes: "<filename>_<timestamp>.csv"
backup_filename(key, t) == key \o <<t>>

\* Path.glob(f"{filename}_*")
glob(files, key) ==
    {f \in files : /\ Len(f.name) > Len(key)
                   /\ SubSeq(f.name, 1, Len(key)) = key}

\* DataManager.save_backup: the backup directory after the call; a file of
\* the same name is overwritten
save_backup(files, frame, key, t, mtime) ==
    {f \in files : f.name # backup_filename(key, t)}
    \cup {[name |-> backup_filename(key, t), mtime |-> mtime,
           content |-> frame_to_csv(frame)]}

\* the try/except of load_backup around pd.read_csv: the file to_csv wrote
\* for a table without columns is one empty line, on which read_csv raises
\* EmptyDataError; the error is logged and None returned
read_backup(text) ==
    IF text.csv.shape = "blank" THEN None ELSE Some(csv_to_frame(text))

\* DataManager.load_backup: the most recent file by st_mtime, or None
load_backup(files, key) ==
    LET backup_files == glob(files, key)
    IN  IF backup_files = {} THEN None
        ELSE LET most_recent == CHOOSE f \in backup_files :
                                    \A g \in backup_files : g.mtime <= f.mtime
             IN  read_backup(most_recent.content)

\* the static files loop of fetch_all_data: the files that are loaded before
\* the first one that load_static_data cannot read
RECURSIVE load_statics(_, _, _)
load_statics(i, acc, readable) ==
    IF i > Len(static_files) \/ acc.status # "running" THEN acc
    ELSE LET key == static_files[i]
         IN  IF readable[key]
                 THEN load_statics(i + 1,
                        [acc EXCEPT
                           !.raw = (key :> DataFrame(Served(key, 0, "good"))) @@ @,
                           !.log = Append(@, <<"info", "Loaded static data", key>>)],
                        readable)
                 ELSE [acc EXCEPT
                         !.status = "none",
                         !.log = Append(@, <<"error", "Failed to load static data", key>>)]

\* fetch_one that goes on with an empty table when a source has neither
\* live data nor a backup
fetch_one_empty_fallback(key, acc, t, answer) ==
    IF answer.kind = "parse_error"
        THEN [acc EXCEPT !.status = "raised"]
    ELSE IF answer.kind = "ok"
        THEN LET downloaded_data == DataFrame(Served(key, t, answer.shape))
             IN  [acc EXCEPT
                    !.raw = (key :> downloaded_data) @@ @,
                    !.files = save_backup(@, downloaded_data, key, t, acc.mtime + 1),
                    !.mtime = @ + 1,
                    !.log = Append(@, <<"info", "Downloaded fresh data", key>>)]
    ELSE LET backup_data == load_backup(acc.files, key)
         IN  IF backup_data # None
                 THEN [acc EXCEPT
                         !.raw = (key :> backup_data[1]) @@ @,
                         !.log = Append(Append(@,
                                    <<"error", "Failed to download data", key>>),
                                    <<"warning", "Using backup data for", key>>)]
                 ELSE [acc EXCEPT
                         !.raw = (key :> DataFrame(Served(key, t, "empty"))) @@ @,
                         !.log = Append(Append(@,
                                    <<"error", "Failed to download data", key>>),
                                    <<"warning", "No backup found for", key>>)]

\* one iteration of the data_sources loop of fetch_all_data
\* (download_data, save_backup, load_backup)
fetch_one(key, acc, t, answer) ==
    IF answer.kind = "parse_error"
        \* the body is not JSON/CSV: the parser's exception is no
        \* RequestException and leaves download_data and fetch_all_data
        THEN [acc EXCEPT !.status = "raised"]
    ELSE IF answer.kind = "ok"
        THEN LET downloaded_data == DataFrame(Served(key, t, answer.shape))
             IN  [acc EXCEPT
                    !.raw = (key :> downloaded_data) @@ @,
                    !.files = save_backup(@, downloaded_data, key, t, acc.mtime + 1),
                    !.mtime = @ + 1,
                    !.log = Append(@, <<"info", "Downloaded fresh data", key>>)]
    ELSE \* RequestException: download_data logs it and returns None
         LET backup_data == load_backup(acc.files, key)
         IN  IF backup_data # None
                 THEN [acc EXCEPT
                         !.raw = (key :> backup_data[1]) @@ @,
                         !.log = Append(Append(@,
                                    <<"error", "Failed to download data", key>>),
                                    <<"warning", "Using backup data for", key>>)]
                 ELSE [acc EXCEPT
                         !.status = "none",
                         !.log = Append(Append(Append(@,
                                    <<"error", "Failed to download data", key>>),
                                    <<"warning", "No backup found for", key>>),
                                    <<"error", "No data available for", key>>)]

RECURSIVE fetch_sources(_, _, _, _)
fetch_sources(i, acc, t, live) ==
    IF i > Len(data_sources) \/ acc.status # "running" THEN acc
    ELSE fetch_sources(i + 1,
                       fetch_one(data_sources[i], acc, t, live[data_sources[i]]),
                       t, live)

\* the two loops of DataManager.fetch_all_data, before process_data:
\* status "running" when every key has a dataset, "none" when the method
\* returns None, "raised" when an exception leaves it
fetch_raw(files, mtime, t, readable, live) ==
    fetch_sources(1,
        load_statics(1, [status |-> "running", raw |-> << >>, files |-> files,
                         mtime |-> mtime, log |-> << >>], readable),
        t, live)

shape_of(frame) == frame.df.shape

\* the part of DataManager.process_data before the weekly surveillance
\* step: None when a column it indexes unconditionally ('geography' of the
\* map cases, 'iso'/'year' of the vaccine data) is absent (the KeyError is
\* caught at the end of process_data), else the processed datasets
process_data(raw) ==
    IF \/ shape_of(raw[<<"usmap", "cases">>]) \in {"nocols", "blank"}
       \/ shape_of(raw[<<"vaccine", "with">>]) = "nocols"
       \/ shape_of(raw[<<"vaccine", "without">>]) = "nocols"
        THEN None
    ELSE Some([timeline  |-> shape_of(raw[<<"timeline">>]),
               usmeasles |-> shape_of(raw[<<"usmeasles">>]),
               mmr       |-> shape_of(raw[<<"mmr">>]),
               usmap     |-> shape_of(raw[<<"usmap", "cases">>]),
               vaccine_impact |->
                   IF \/ shape_of(raw[<<"vaccine", "with">>]) = "empty"
                      \/ shape_of(raw[<<"vaccine", "without">>]) = "empty"
                       THEN "empty" ELSE "good"])

\* DataManager.validate_data on the critical datasets, and the
\* failed_critical list of main: TRUE when none of them failed
critical_valid(processed) ==
    /\ processed.timeline = "good"
    /\ processed.usmeasles = "good"
    /\ processed.usmap \notin {"empty", "blank"}

(***************************************************************************)
(* Data Reconciliation: the steps of process_data on the rows of a table.  *)
(* A cell of a raw table is the text of its value; a cell of a numeric     *)
(* column is Num(n) or the missing marker NA (NaN, pd.NA).                 *)
(***************************************************************************)
NA == <<>>
Num(n) == <<n>>

\* the texts that pd.to_numeric reads as a number (those that occur in the
\* tables of the model)
numeric_text ==
    ("2024" :> 2024) @@ ("2025" :> 2025) @@ ("2026" :> 2026) @@
    ("0" :> 0) @@ ("100" :> 100) @@ ("95" :> 95)

\* pd.to_numeric(column, errors='coerce') on one cell
to_numeric(cell) ==
    IF cell \in DOMAIN numeric_text THEN Num(numeric_text[cell]) ELSE NA

\* DataManager.standardize_year_columns: to_numeric, then astype('Int64')
\* (every number of the model is integral, so the cast does not raise)
standardize_year_columns(df) ==
    [i \in DOMAIN df |-> [df[i] EXCEPT !.year = to_numeric(@)]]

\* processed['usmeasles'] (and in the same way timeline and mmr): only the
\* year column is converted
process_usmeasles(df) == standardize_year_columns(df)

\* rows of data/MMRKCoverage25.csv used by the model: a state with a
\* numeric estimate, a state whose estimate is the text "NR"
mmr_map ==
    << [geography |-> "Arizona", estimate |-> "95"],
       [geography |-> "Texas", estimate |-> "NR"] >>

\* usmap_cases.merge(mmr_map, on='geography', how='left'): a row without a
\* partner gets NaN; index is the position of the row in usmap_cases
merge_mmr_map(usmap_cases) ==
    [i \in DOMAIN usmap_cases |->
        LET Test(m) == m.geography = usmap_cases[i].geography
            partner == SelectSeq(mmr_map, Test)
        IN  [index     |-> i,
             geography |-> usmap_cases[i].geography,
             year      |-> usmap_cases[i].year,
             cases     |-> usmap_cases[i].cases,
             estimate  |-> IF Len(partner) > 0 THEN partner[1].estimate ELSE "nan"]]

\* the year the state map is filtered to
ReportingYear == 2025

RECURSIVE max_year(_, _)
\* usmap[year_col].max(): the greatest known year of rows i.., NA if none
max_year(usmap, i) ==
    IF i > Len(usmap) THEN NA
    ELSE LET rest == max_year(usmap, i + 1)
         IN  IF usmap[i].year = NA THEN rest
             ELSE IF rest = NA \/ rest[1] < usmap[i].year[1] THEN usmap[i].year
             ELSE rest

\* the year filter of process_data: the rows of 2025, or of the most
\* recent year when there is none (a comparison with NA is never true)
filter_reporting_year(usmap) ==
    LET Is2025(r) == r.year = Num(ReportingYear)
        usmap_2025 == SelectSeq(usmap, Is2025)
        most_recent_year == max_year(usmap, 1)
        IsRecent(r) == most_recent_year # NA /\ r.year = most_recent_year
    IN  IF Len(usmap_2025) = 0 /\ Len(usmap) > 0
            THEN SelectSeq(usmap, IsRecent)
            ELSE usmap_2025

\* process_usmap that also drops the rows whose count is missing
process_usmap_dropna(usmap_cases) ==
    LET NotCity(r) == r.geography \notin {"New York City", "District of Columbia"}
        HasCases(r) == to_numeric(r.cases) # NA
        usmap == filter_reporting_year(
                     SelectSeq(merge_mmr_map(standardize_year_columns(usmap_cases)),
                               NotCity))
    IN  [i \in DOMAIN SelectSeq(usmap, HasCases) |->
            [SelectSeq(usmap, HasCases)[i] EXCEPT !.estimate = to_numeric(@),
                                                  !.cases = to_numeric(@)]]

\* processed['usmap']: the map branch of process_data
process_usmap(usmap_cases) ==
    LET NotCity(r) == r.geography \notin {"New York City", "District of Columbia"}
        usmap == filter_reporting_year(
                     SelectSeq(merge_mmr_map(standardize_year_columns(usmap_cases)),
                               NotCity))
    IN  [i \in DOMAIN usmap |->
            [usmap[i] EXCEPT !.estimate = to_numeric(@), !.cases = to_numeric(@)]]

\* two entries that stand for the STATE_POPULATIONS table of chart_styles
STATE_POPULATIONS == ("Arizona" :> 1000000) @@ ("Texas" :> 3000000)

\* df['geography'].map(STATE_POPULATIONS): NaN for a name not in the table
population_of(geography) ==
    IF geography \in DOMAIN STATE_POPULATIONS
        THEN Num(STATE_POPULATIONS[geography]) ELSE NA

\* round(): n / d rounded to the nearest integer, ties to even
round_half_even(n, d) ==
    LET q == n \div d
        r == n % d
    IN  IF 2 * r > d THEN q + 1
        ELSE IF 2 * r < d THEN q
        ELSE q + (q % 2)

\* (df[cases_col] / df['population'] * 100000).round(2).fillna(0) of
\* create_bivariate_choropleth and create_state_map_table, in hundredths
case_rate(cases, population) ==
    IF cases = NA \/ population = NA
        THEN Num(0)
        ELSE Num(round_half_even(cases[1] * 100000 * 100, population[1]))

(***************************************************************************)
(* The output tree docs/ written by main: a file is its name and the run   *)
(* that wrote it (the index page carries the time of its generation).      *)
(***************************************************************************)
index_page == "index.html"

\* the pages main passes to create_html_page, in order
html_pages ==
    <<"timeline.html", "recent_trends.html", "rnaught_comparison.html",
      "state_map.html", "lives_saved.html", "timeline_table.html",
      "recent_trends_table.html", "rnaught_table.html", "state_map_table.html",
      "lives_saved_table.html">>

\* open(output_dir / filename, 'w'): the file is created or replaced
write_file(tree, name, t) ==
    {f \in tree : f.name # name} \cup {[name |-> name, written |-> t]}

create_index_page(tree, t) == write_file(tree, index_page, t)

RECURSIVE create_html_pages(_, _, _)
create_html_pages(tree, i, t) ==
    IF i > Len(html_pages) THEN tree
    ELSE create_html_pages(write_file(tree, html_pages[i], t), i + 1, t)

\* main with the output directory and the index page created before the
\* critical datasets are checked
main_output_before_validation(tree, valid, t) ==
    IF valid THEN create_html_pages(create_index_page(tree, t), 1, t)
    ELSE create_index_page(tree, t)

\* main from the check of failed_critical on: sys.exit(1) before anything
\* is written, else the index page and then the chart and table pages
main_output(tree, valid, t) ==
    IF valid THEN create_html_pages(create_index_page(tree, t), 1, t)
    ELSE tree

(***************************************************************************)
(* State of the weekly-surveillance machine.                               *)
(***************************************************************************)
VARIABLES
    today,          \* date of datetime.now()
    runs,           \* runs so far; also the wall-clock tick of the last run
    ledger,         \* the ledger file
    ledger_before,  \* the ledger file when the last run started
    batch,          \* DataFrame the last run passed to save_historical_data
    emitted,        \* DataFrame the last run returned
    lookup_week,    \* epi-week the last run looked up as "previous week"
    responses,      \* what the six sites answered in the last run
    backups,        \* files of the backup directory
    mtime_clock,    \* st_mtime of the file written last
    raw,            \* the data dict of the last fetch_all_data
    fetch_log,      \* what the last fetch_all_data logged
    fetch_result,   \* how the last fetch_all_data ended
    exit_code,      \* exit status of the last run of main
    answers,        \* what the files and sources answered in the last run
    saved,          \* the save_backup calls made directly, in order
    loaded,         \* the last direct load_backup call: its key, the number of
                    \* save_backup calls before it, and what it returned
    map_rows,       \* rows of raw_data['usmap_cases'] (year and cases as in
                    \* raw_data['usmeasles'])
    usmeasles,      \* processed['usmeasles']
    usmap,          \* processed['usmap']
    case_rates,     \* the case_rate column derived from processed['usmap']
    order,          \* order in which the last run called the six scrapers
    ledger_reads,   \* times the last run read the ledger file
    ledger_writes,  \* times the last run wrote the ledger file
    fallback,       \* DataFrame of the last generate_fallback_weekly_data
    output          \* files of the output tree docs/

weeklyVars == <<today, runs, ledger, ledger_before, batch, emitted, lookup_week, responses>>

fetchVars == <<backups, mtime_clock, raw, fetch_log, fetch_result, exit_code, answers>>

storeVars == <<saved, loaded>>

reconVars == <<map_rows, usmeasles, usmap, case_rates>>

\* bookkeeping of a run of the weekly step
runVars == <<order, ledger_reads, ledger_writes, fallback>>

vars == <<weeklyVars, fetchVars, storeVars, reconVars, runVars, output>>

\* gaps between two runs: the same day, a week, 53 weeks
Jumps == {0, 7, 371}

StartDate == Date(FirstYear, DaysInYear(FirstYear))

\* every site up, no pattern matching
DefaultResp == [s \in States |-> Page([i \in 1 .. case_patterns[s] |-> NoMatch])]

\* a page whose first pattern captures c
HitPage(s, c) == Page([i \in 1 .. case_patterns[s] |-> IF i = 1 THEN c ELSE NoMatch])

\* answers of the six sites in one run: at most one site is down or reports
\* a non-zero count
Responses ==
    {DefaultResp}
    \cup {[DefaultResp EXCEPT ![s] = Fail] : s \in States}
    \cup {[DefaultResp EXCEPT ![s] = HitPage(s, c)] :
            s \in {x \in States : case_patterns[x] > 0}, c \in 1 .. MaxCases}

\* every static file readable, every source serving good rows
AllGood ==
    [readable |-> [k \in Range(static_files) |-> TRUE],
     live     |-> [k \in Range(data_sources) |-> [kind |-> "ok", shape |-> "good"]]]

\* answers of the files and sources in one run of main: at most one static
\* file is unreadable or one source fails or serves unusual rows (only the
\* two JSON sources can serve a body without columns and rows)
FetchAnswers ==
    {AllGood}
    \cup {[AllGood EXCEPT !.readable[k] = FALSE] : k \in Range(static_files)}
    \cup {[AllGood EXCEPT !.live[k] = a] :
            k \in Range(data_sources),
            a \in {[kind |-> "request_error", shape |-> "good"],
                   [kind |-> "parse_error", shape |-> "good"],
                   [kind |-> "ok", shape |-> "empty"],
                   [kind |-> "ok", shape |-> "nocols"]}}
    \cup {[AllGood EXCEPT !.live[k] = [kind |-> "ok", shape |-> "blank"]] :
            k \in json_sources}

Init ==
    /\ today = StartDate
    /\ runs = 0
    /\ ledger = AbsentFile
    /\ ledger_before = AbsentFile
    /\ batch = <<>>
    /\ emitted = <<>>
    /\ lookup_week = None
    /\ responses = DefaultResp
    /\ backups = {}
    /\ mtime_clock = 0
    /\ raw = << >>
    /\ fetch_log = << >>
    /\ fetch_result = "not run"
    /\ exit_code = None
    /\ answers = AllGood
    /\ saved = << >>
    /\ loaded = None
    /\ map_rows = << >>
    /\ usmeasles = << >>
    /\ usmap = << >>
    /\ case_rates = << >>
    /\ order = StateOrder
    /\ ledger_reads = 0
    /\ ledger_writes = 0
    /\ fallback = << >>
    /\ output = {}

\* one run of load_weekly_surveillance_data, jump days after the last one
LoadWeekly(jump, resp) ==
    /\ runs < MaxRuns
    /\ LET now_date == AddDays(today, jump)
       IN  \E out \in {load_weekly_surveillance_data(ledger, now_date, runs + 1, resp)} :
           /\ today' = now_date
           /\ runs' = runs + 1
           /\ ledger_before' = ledger
           /\ ledger' = out.ledger
           /\ batch' = out.batch
           /\ emitted' = out.emitted
           /\ lookup_week' = out.lookup_week
           /\ responses' = resp
           /\ ledger_reads' = ledger_io(ledger).reads
           /\ ledger_writes' = ledger_io(ledger).writes
    /\ UNCHANGED fetchVars
    /\ UNCHANGED <<storeVars, reconVars, order, fallback, output>>

Next == \E jump \in Jumps, resp \in Responses : LoadWeekly(jump, resp)

Spec == Init /\ [][Next]_vars

(***************************************************************************)
(* main(): fetch_all_data (the two loops, then process_data, whose last    *)
(* step is load_weekly_surveillance_data), validate_data, sys.exit.  In    *)
(* this specification the runs follow each other on one day and the six    *)
(* state sites are up.                                                     *)
(***************************************************************************)
Main(ans) ==
    /\ runs < MaxFetchRuns
    /\ runs' = runs + 1
    /\ answers' = ans
    /\ UNCHANGED <<storeVars, reconVars, order, fallback>>
    /\ \E f \in {fetch_raw(backups, mtime_clock, runs + 1, ans.readable, ans.live)} :
        /\ backups' = f.files
        /\ mtime_clock' = f.mtime
        /\ raw' = f.raw
        /\ fetch_log' = f.log
        /\ IF f.status = "raised"
               \* caught by "except Exception" of main
               THEN /\ fetch_result' = "raised"
                    /\ exit_code' = Some(1)
                    /\ UNCHANGED <<today, ledger, ledger_before, batch, emitted,
                                   lookup_week, responses>>
                    /\ UNCHANGED <<ledger_reads, ledger_writes, output>>
           ELSE IF f.status = "none" \/ process_data(f.raw) = None
               \* data is None
               THEN /\ fetch_result' = "None"
                    /\ exit_code' = Some(1)
                    /\ UNCHANGED <<today, ledger, ledger_before, batch, emitted,
                                   lookup_week, responses>>
                    /\ UNCHANGED <<ledger_reads, ledger_writes, output>>
           ELSE \E out \in {load_weekly_surveillance_data(ledger, today, runs + 1,
                                                          DefaultResp)} :
                    /\ fetch_result' = "processed"
                    /\ exit_code' = IF critical_valid(process_data(f.raw)[1])
                                        THEN Some(0) ELSE Some(1)
                    /\ ledger_before' = ledger
                    /\ ledger' = out.ledger
                    /\ batch' = out.batch
                    /\ emitted' = out.emitted
                    /\ lookup_week' = out.lookup_week
                    /\ responses' = DefaultResp
                    /\ ledger_reads' = ledger_io(ledger).reads
                    /\ ledger_writes' = ledger_io(ledger).writes
                    /\ output' = main_output(output, critical_valid(process_data(f.raw)[1]),
                                              runs + 1)
                    /\ UNCHANGED today

NextFetch == \E ans \in FetchAnswers : Main(ans)

SpecFetch == Init /\ [][NextFetch]_vars

(***************************************************************************)
(* The ledger with a fault of the file system: the file is damaged or      *)
(* truncated between two runs (a writer killed after open(), a permission  *)
(* change), so that read_csv raises an error other than FileNotFoundError. *)
(***************************************************************************)
CorruptLedger ==
    /\ ledger.status # "unreadable"
    /\ ledger' = [status |-> "unreadable", rows |-> <<>>]
    /\ UNCHANGED <<today, runs, ledger_before, batch, emitted, lookup_week, responses>>
    /\ UNCHANGED fetchVars
    /\ UNCHANGED <<storeVars, reconVars, runVars, output>>

NextFault == Next \/ CorruptLedger

SpecFault == Init /\ [][NextFault]_vars

(***************************************************************************)
(* The Backup/Restore Store on its own: save_backup and load_backup called *)
(* in any order with the keys of data_sources.  The timestamp of a file    *)
(* name has a resolution of one second: tick says whether the second       *)
(* changed since the last call.                                            *)
(***************************************************************************)
\* tables fetch_all_data can pass to save_backup for a key
SavedShapes(key) == IF key \in json_sources THEN {"good", "blank"} ELSE {"good", "empty"}

SaveBackup(key, shape, tick) ==
    /\ Len(saved) < MaxSaves
    /\ LET frame == DataFrame(Served(key, mtime_clock + 1, shape))
       IN  /\ backups' = save_backup(backups, frame, key, runs + tick, mtime_clock + 1)
           /\ saved' = Append(saved, [key |-> key, frame |-> frame])
    /\ mtime_clock' = mtime_clock + 1
    /\ runs' = runs + tick
    /\ UNCHANGED <<today, ledger, ledger_before, batch, emitted, lookup_week, responses>>
    /\ UNCHANGED <<raw, fetch_log, fetch_result, exit_code, answers, loaded, reconVars>>
    /\ UNCHANGED <<runVars, output>>

LoadBackup(key) ==
    /\ loaded' = Some([key |-> key, after |-> Len(saved),
                        data |-> load_backup(backups, key)])
    /\ UNCHANGED <<weeklyVars, fetchVars, saved, reconVars, runVars, output>>

(***************************************************************************)
(* scrape_all_states on its own, once: any answer of one site, while a     *)
(* second site is down or its first pattern captures a count.              *)
(***************************************************************************)
\* what the site of a state can answer
SiteAnswers(s) == {Fail} \cup {Page(p) : p \in Pages(s)}

\* a site that is up with no match, down, or matched by its first pattern
SimpleAnswers(s) == {DefaultResp[s], Fail} \cup {HitPage(s, c) : c \in 1 .. MaxCases}

ScrapeResponses ==
    UNION {UNION {{[DefaultResp EXCEPT ![b] = y, ![a] = x] :
                      x \in SiteAnswers(a), y \in SimpleAnswers(b)} :
                  b \in States} :
           a \in States}

ScrapeAll(resp) ==
    /\ runs = 0
    /\ runs' = 1
    /\ responses' = resp
    /\ batch' = scrape_all_states(today, 1, resp)
    /\ emitted' = batch'
    /\ UNCHANGED <<today, ledger, ledger_before, lookup_week>>
    /\ UNCHANGED <<fetchVars, storeVars, reconVars, runVars, output>>

\* the answers are enumerated only while the step is still to be taken
NextScrape ==
    /\ runs = 0
    /\ \E resp \in ScrapeResponses : ScrapeAll(resp)

SpecScrape == Init /\ [][NextScrape]_vars

(***************************************************************************)
(* The reconciliation of the state map on its own, once: process_data on   *)
(* a table of map cases, then the case rates the renderers derive.         *)
(***************************************************************************)
\* a row of MeaslesCasesMap.json: a state with an estimate, a state whose
\* estimate is text, a territory in neither table, a city that is dropped
MapRows ==
    [geography : {"Arizona", "Texas", "Guam", "New York City"},
     year      : {"2024", "2025", "2026", "n/a"},
     cases     : {"100", "n/a"}]

MapTables == UNION {[1 .. n -> MapRows] : n \in 0 .. MaxMapRows}

Reconcile(rows, jump) ==
    /\ runs = 0
    /\ runs' = 1
    /\ today' = AddDays(today, jump)
    /\ map_rows' = rows
    /\ usmeasles' = process_usmeasles([i \in DOMAIN rows |->
                                          [year |-> rows[i].year, cases |-> rows[i].cases]])
    /\ usmap' = process_usmap(rows)
    /\ case_rates' = [i \in DOMAIN usmap' |->
                         case_rate(usmap'[i].cases, population_of(usmap'[i].geography))]
    /\ UNCHANGED <<ledger, ledger_before, batch, emitted, lookup_week, responses>>
    /\ UNCHANGED <<fetchVars, storeVars, runVars, output>>

\* the tables are enumerated only while the step is still to be taken
NextReconcile ==
    /\ runs = 0
    /\ \E rows \in MapTables, jump \in {0, 7} : Reconcile(rows, jump)

SpecReconcile == Init /\ [][NextReconcile]_vars

(***************************************************************************)
(* The weekly step with the six scrapes finishing in any order: a first    *)
(* run in the order of the code, then a run in any order.                  *)
(***************************************************************************)
\* the permutations of the six states
Orders ==
    {o \in [DOMAIN StateOrder -> States] : \A s \in States : \E i \in DOMAIN o : o[i] = s}

\* answers of the six sites with every site up or one site down
DownResponses == {DefaultResp} \cup {[DefaultResp EXCEPT ![s] = Fail] : s \in States}

LoadWeeklyInOrder(state_order, jump, resp) ==
    /\ runs = 1
    /\ LET now_date == AddDays(today, jump)
       IN  \E out \in {load_weekly_in_order(state_order, ledger, now_date, runs + 1, resp)} :
           /\ today' = now_date
           /\ runs' = runs + 1
           /\ ledger_before' = ledger
           /\ ledger' = out.ledger
           /\ batch' = out.batch
           /\ emitted' = out.emitted
           /\ lookup_week' = out.lookup_week
           /\ responses' = resp
           /\ order' = state_order
           /\ ledger_reads' = ledger_io(ledger).reads
           /\ ledger_writes' = ledger_io(ledger).writes
    /\ UNCHANGED <<fetchVars, storeVars, reconVars, fallback, output>>

\* the orders are enumerated only while the second run is still to be taken
NextOrder ==
    \/ runs = 0 /\ \E resp \in Responses : LoadWeekly(0, resp)
    \/ runs = 1 /\ \E state_order \in Orders, jump \in {0, 7}, resp \in DownResponses :
                       LoadWeeklyInOrder(state_order, jump, resp)

SpecOrder == Init /\ [][NextOrder]_vars

(***************************************************************************)
(* The weekly step and the fallback on any date: one run on a cold start   *)
(* on a day of the years FirstYear .. FirstYear + YearSpan, then the       *)
(* fallback records of that day.                                           *)
(***************************************************************************)
Dates ==
    UNION {{Date(y, n) : n \in 1 .. DaysInYear(y)} : y \in FirstYear .. (FirstYear + YearSpan)}

\* every site up, or the first site down
EpiWeekResponses == {DefaultResp, [DefaultResp EXCEPT ![StateOrder[1]] = Fail]}

RunOn(now_date, resp) ==
    /\ runs = 0
    /\ \E out \in {load_weekly_surveillance_data(ledger, now_date, 1, resp)} :
           /\ today' = now_date
           /\ runs' = 1
           /\ ledger_before' = ledger
           /\ ledger' = out.ledger
           /\ batch' = out.batch
           /\ emitted' = out.emitted
           /\ lookup_week' = out.lookup_week
           /\ responses' = resp
           /\ ledger_reads' = ledger_io(ledger).reads
           /\ ledger_writes' = ledger_io(ledger).writes
    /\ UNCHANGED <<fetchVars, storeVars, reconVars, order, fallback, output>>

GenerateFallback ==
    /\ runs = 1
    /\ fallback = << >>
    /\ fallback' = generate_fallback_weekly_data(today, runs)
    /\ UNCHANGED <<weeklyVars, fetchVars, storeVars, reconVars>>
    /\ UNCHANGED <<order, ledger_reads, ledger_writes, output>>

\* the dates are enumerated only while the run is still to be taken
NextEpiWeek ==
    \/ runs = 0 /\ \E now_date \in Dates, resp \in EpiWeekResponses : RunOn(now_date, resp)
    \/ GenerateFallback

SpecEpiWeek == Init /\ [][NextEpiWeek]_vars

NextBackup ==
    \/ \E key \in Range(data_sources), tick \in {0, 1} :
          \E shape \in SavedShapes(key) : SaveBackup(key, shape, tick)
    \/ \E key \in Range(data_sources) : LoadBackup(key)

SpecBackup == Init /\ [][NextBackup]_vars

(***************************************************************************)
(* Properties of the ledger.                                               *)
(***************************************************************************)
\* C1: after the upsert of a batch, every key of the batch has exactly one
\* row in the persisted ledger and that row equals the batch's record in
\* every field (last write wins, nothing of the older row survives).
C1_UpsertLastWriteWins ==
    runs > 0 =>
        \A i \in DOMAIN batch :
            LET found == RowsOf(ledger.rows, LedgerKey(batch[i]))
            IN  Len(found) = 1 /\ found[1] = batch[i]

\* a run whose batch collided with an older row of different content
C1_Witness ==
    /\ runs > 0
    /\ \E i \in DOMAIN batch :
          LET old == RowsOf(ledger_before.rows, LedgerKey(batch[i]))
          IN  /\ Len(old) = 1
              /\ old[1].current_week_cases # batch[i].current_week_cases
              /\ old[1].source_url # batch[i].source_url

\* C2: after any sequence of runs from an absent ledger, the persisted
\* ledger holds at most one row per (state, epi_week, epi_year).
C2_UniqueKeys ==
    \A i, j \in DOMAIN ledger.rows :
        LedgerKey(ledger.rows[i]) = LedgerKey(ledger.rows[j]) => i = j

\* two runs in one epi-week: the second replaced all six rows of the first
C2_Witness ==
    /\ runs >= 2
    /\ Len(ledger_before.rows) = Len(StateOrder)
    /\ Len(ledger.rows) = Len(StateOrder)
    /\ ledger.rows # ledger_before.rows

\* C3: in a run of epi-week w > 1 of epi-year y, the previous-week count of
\* a state is the current_week_cases of the ledger row (state, w-1, y); when
\* there is no such row the count is not taken from a row of another year.
C3_PrevWeekSameYear ==
    \A i \in DOMAIN emitted :
        LET r    == emitted[i]
            same == RowsOf(ledger.rows, <<r.state, r.epi_week - 1, r.epi_year>>)
        IN  (r.epi_week > 1 /\ ledger.status = "ok") =>
                IF Len(same) > 0
                    THEN r.previous_week_cases = same[1].current_week_cases
                    ELSE r.previous_week_cases = batch[i].previous_week_cases

\* the ledger row of the final epi-week (53 if recorded, else 52) of a year
FinalWeekRows(rows, state, year) ==
    IF Len(RowsOf(rows, <<state, 53, year>>)) > 0
        THEN RowsOf(rows, <<state, 53, year>>)
        ELSE RowsOf(rows, <<state, 52, year>>)

\* C4: in a run of epi-week 1 of epi-year Y the previous-week count of a
\* state is the count recorded in the final epi-week of year Y-1.
C4_YearBoundaryLookup ==
    \A i \in DOMAIN emitted :
        LET r     == emitted[i]
            final == FinalWeekRows(ledger.rows, r.state, r.epi_year - 1)
        IN  (r.epi_week = 1 /\ Len(final) > 0) =>
                r.previous_week_cases = final[1].current_week_cases

\* C5: the week the pipeline looks up as "previous week" is in 1..53.
C5_LookupWeekValid ==
    lookup_week # None => lookup_week[1] \in 1 .. 53

\* rows of the epi-week before week w of year y
PreviousWeekRows(rows, state, w, y) ==
    IF w > 1 THEN RowsOf(rows, <<state, w - 1, y>>)
    ELSE FinalWeekRows(rows, state, y - 1)

\* C6: when the ledger has no row for the previous epi-week of a state, the
\* previous-week count of that state is "unavailable", not a count.
C6_MissingPrevWeekUnavailable ==
    \A i \in DOMAIN emitted :
        LET r == emitted[i]
        IN  Len(PreviousWeekRows(ledger.rows, r.state, r.epi_week, r.epi_year)) = 0
                => r.previous_week_cases \notin Nat

\* C7: a ledger file that is absent or unreadable when a run starts is
\* treated as empty: after the run the ledger holds exactly the batch.
C7_ColdStart ==
    (runs > 0 /\ ledger_before.status \in {"absent", "unreadable"}) =>
        (ledger.status = "ok" /\ ledger.rows = batch)

\* latest row of a state in a table
LatestRowOf(rows, state) ==
    LET Test(h) == h.state = state
        mine    == SelectSeq(rows, Test)
    IN  mine[Len(mine)]

HasRowOf(rows, state) == \E j \in DOMAIN rows : rows[j].state = state

\* C8 as claimed: when the scrape of a state fails and the ledger already
\* holds a count for the state, the emitted count is that of the ledger.
C8_BackfilledFromLedger ==
    \A i \in DOMAIN emitted :
        (~responses[StateOrder[i]].ok /\ HasRowOf(ledger_before.rows, StateOrder[i])) =>
            emitted[i].current_week_cases =
                LatestRowOf(ledger_before.rows, StateOrder[i]).current_week_cases

\* C8 as amended: when the scrape of a state fails, the record emitted and
\* persisted for the state has current-week count 0 whatever the ledger
\* holds.
C8_FailedScrapeZeroFilled ==
    \A i \in DOMAIN emitted :
        ~responses[StateOrder[i]].ok =>
            /\ emitted[i].state = StateOrder[i]
            /\ emitted[i].current_week_cases = 0
            /\ batch[i].current_week_cases = 0

\* a failed scrape of a state whose ledger rows hold a non-zero count
C8_Witness ==
    \E i \in DOMAIN emitted :
        /\ ~responses[StateOrder[i]].ok
        /\ HasRowOf(ledger_before.rows, StateOrder[i])
        /\ LatestRowOf(ledger_before.rows, StateOrder[i]).current_week_cases > 0

(***************************************************************************)
(* Properties of the fetch with backup fallback.                           *)
(***************************************************************************)
\* snapshots that save_backup wrote under a key
SnapshotsOf(files, key) ==
    {f \in files : \E t \in 1 .. runs : f.name = backup_filename(key, t)}

LatestOf(snaps) == CHOOSE f \in snaps : \A g \in snaps : g.mtime <= f.mtime

\* the download of a key failed with a RequestException in the last run
DownloadFailed(key) == <<"error", "Failed to download data", key>> \in Range(fetch_log)

\* C9: for every remote key whose live fetch fails while a backup snapshot
\* of the key exists, fetch_all_data does not give up at that key, the
\* dataset it uses is the content of the most recent snapshot of that key,
\* and the fallback is logged.
C9_BackupFallback ==
    \A key \in Range(data_sources) :
        LET snaps == SnapshotsOf(backups, key)
        IN  (DownloadFailed(key) /\ snaps # {}) =>
                /\ key \in DOMAIN raw
                /\ raw[key] = csv_to_frame(LatestOf(snaps).content)
                /\ <<"warning", "Using backup data for", key>> \in Range(fetch_log)
                /\ <<"error", "No data available for", key>> \notin Range(fetch_log)

\* a failed download of a key that has two snapshots of different content
C9_Witness ==
    \E key \in Range(data_sources) :
        /\ DownloadFailed(key)
        /\ \E f, g \in SnapshotsOf(backups, key) :
              f.mtime < g.mtime /\ f.content # g.content /\ raw[key] = csv_to_frame(g.content)

\* a critical dataset has neither a readable static file, nor live data,
\* nor a snapshot
CriticalUnobtainable ==
    \/ \E key \in {<<"timeline">>, <<"mmr", "map">>} : ~answers.readable[key]
    \/ /\ \A key \in Range(static_files) : answers.readable[key]
       /\ \E i \in {1, 2} :
            /\ answers.live[data_sources[i]].kind \in {"request_error", "parse_error"}
            /\ SnapshotsOf(backups, data_sources[i]) = {}
            /\ \A j \in 1 .. (i - 1) : answers.live[data_sources[j]].kind = "ok"

\* C10: when a critical dataset (timeline, national case counts, state map)
\* can be obtained neither live or from its static file nor from a backup,
\* fetch_all_data yields no result and the run exits with a non-zero status.
C10_CriticalMissingAborts ==
    (runs > 0 /\ fetch_result # "not run" /\ CriticalUnobtainable) =>
        (fetch_result \in {"None", "raised"} /\ exit_code = Some(1))

\* the national case counts are down and were never backed up
C10_Witness ==
    /\ fetch_result = "None"
    /\ exit_code = Some(1)
    /\ answers.live[<<"usmeasles">>].kind = "request_error"
    /\ SnapshotsOf(backups, <<"usmeasles">>) = {}
    /\ <<"error", "No data available for", <<"usmeasles">>>> \in Range(fetch_log)

\* a vaccine source is down and was never backed up, while every static
\* file is readable and the critical sources serve good rows
NonCriticalUnobtainable ==
    /\ \A key \in Range(static_files) : answers.readable[key]
    /\ \A i \in {1, 2} : answers.live[data_sources[i]] = [kind |-> "ok", shape |-> "good"]
    /\ \E i \in {3, 4} :
          /\ answers.live[data_sources[i]].kind = "request_error"
          /\ SnapshotsOf(backups, data_sources[i]) = {}

\* C11: when only a non-critical source (vaccine_with, vaccine_without) has
\* neither live data nor a backup, fetch_all_data still returns a result
\* and the result holds the datasets of all other keys.
C11_NonCriticalDegrades ==
    (fetch_result # "not run" /\ NonCriticalUnobtainable) =>
        /\ fetch_result = "processed"
        /\ \A key \in Range(static_files) \cup {data_sources[1], data_sources[2]} :
              key \in DOMAIN raw

(***************************************************************************)
(* Properties of the Backup/Restore Store.                                 *)
(***************************************************************************)
\* the tables saved under a key by the first n save_backup calls, in order
SavedUnder(key, n) ==
    LET Test(c) == c.key = key
    IN  SelectSeq(SubSeq(saved, 1, n), Test)

\* C12: after any sequence of save_backup calls, load_backup(key) returns
\* the table of the last save_backup call made for that key, and None
\* exactly when save_backup was never called for that key.
C12_LoadLatestOfKey ==
    loaded # None =>
        LET mine == SavedUnder(loaded[1].key, loaded[1].after)
        IN  IF Len(mine) = 0
                THEN loaded[1].data = None
                ELSE loaded[1].data = Some(mine[Len(mine)].frame)

(***************************************************************************)
(* Properties of the state scrapes.                                        *)
(***************************************************************************)
\* C13: scrape_all_states returns one record per configured state, in
\* order; a state whose scrape failed has count 0 and its agency as
\* attribution, and the records of the other five states are what they
\* would be had the site of that state answered with any page.
C13_StateIsolation ==
    runs > 0 =>
        /\ Len(batch) = Len(StateOrder)
        /\ \A i \in DOMAIN StateOrder : batch[i].state = StateOrder[i]
        /\ \A i \in DOMAIN StateOrder :
              LET s == StateOrder[i]
              IN  ~responses[s].ok =>
                    /\ batch[i].current_week_cases = 0
                    /\ batch[i].data_source = state_configs[s].agency
                    /\ batch[i].attribution = <<"Data courtesy of ", state_configs[s].agency>>
                    /\ \A p \in Pages(s) :
                          LET alt == scrape_all_states(today, runs,
                                                       [responses EXCEPT ![s] = Page(p)])
                          IN  \A j \in DOMAIN StateOrder : j # i => alt[j] = batch[j]

\* one site is down while another state reports a non-zero count
C13_Witness ==
    /\ runs > 0
    /\ \E i, j \in DOMAIN batch :
          /\ ~responses[StateOrder[i]].ok
          /\ responses[StateOrder[j]].ok
          /\ batch[j].current_week_cases > 0

\* no pattern of the state matches the page
NoPatternMatches(s) ==
    /\ responses[s].ok
    /\ \A k \in DOMAIN responses[s].page : responses[s].page[k] = NoMatch

\* C14: a state whose page was fetched and matched by none of its patterns
\* has a record of the scraper (not the fallback record) whose current-week
\* count is the integer 0.
C14_NoMatchIsZero ==
    runs > 0 =>
        \A i \in DOMAIN StateOrder :
            NoPatternMatches(StateOrder[i]) =>
                /\ i \in DOMAIN batch
                /\ batch[i].state = StateOrder[i]
                /\ batch[i].source_url = state_configs[StateOrder[i]].url
                /\ batch[i].current_week_cases = 0

\* a state with patterns none of which matches, next to a state that
\* reports a non-zero count
C14_Witness ==
    /\ runs > 0
    /\ \E i, j \in DOMAIN batch :
          /\ case_patterns[StateOrder[i]] > 0
          /\ NoPatternMatches(StateOrder[i])
          /\ batch[j].current_week_cases > 0

\* C15: the count of a state is the number captured by the lowest-index
\* pattern that matches its page, whatever later patterns capture.
C15_FirstPatternWins ==
    runs > 0 =>
        \A i \in DOMAIN StateOrder :
            LET s == StateOrder[i]
            IN  responses[s].ok =>
                  \A k \in DOMAIN responses[s].page :
                      (/\ responses[s].page[k] # NoMatch
                       /\ \A j \in 1 .. (k - 1) : responses[s].page[j] = NoMatch)
                          => batch[i].current_week_cases = responses[s].page[k]

\* a page on which two patterns capture different numbers
C15_Witness ==
    /\ runs > 0
    /\ \E s \in States :
          /\ responses[s].ok
          /\ \E j, k \in DOMAIN responses[s].page :
                /\ j < k
                /\ responses[s].page[j] # NoMatch
                /\ responses[s].page[k] # NoMatch
                /\ responses[s].page[j] # responses[s].page[k]

(***************************************************************************)
(* Properties of the error handling of the fetch.                          *)
(***************************************************************************)
\* C16: when a source answers with HTTP success and a body that is not
\* parseable JSON/CSV, no exception leaves fetch_all_data.
C16_MalformedBodyRecovered ==
    (fetch_result # "not run"
       /\ \E key \in Range(data_sources) : answers.live[key].kind = "parse_error")
        => fetch_result # "raised"

\* C17: when the table of a source lacks the columns process_data expects
\* (the cases column, 'geography', 'iso'), process_data still returns a
\* result; it does not return None for the whole pipeline.
C17_MissingColumnsDegrade ==
    \A key \in Range(data_sources) :
        (fetch_result # "not run" /\ answers.live[key] = [kind |-> "ok", shape |-> "nocols"])
            => fetch_result = "processed"

(***************************************************************************)
(* Properties of the reconciliation of the state map.                      *)
(***************************************************************************)
\* the rows of the map cases that are states, with their year as a number
StateRows ==
    {i \in DOMAIN map_rows :
        map_rows[i].geography \notin {"New York City", "District of Columbia"}}

KnownYears == {to_numeric(map_rows[i].year)[1] : i \in {j \in StateRows :
                                                         to_numeric(map_rows[j].year) # NA}}

RowsOfYear(y) == {i \in StateRows : to_numeric(map_rows[i].year) = Num(y)}

Indexes(df) == {df[j].index : j \in DOMAIN df}

\* C18: the state map holds exactly the rows of the current reporting year
\* (the year of the run) when there is one, otherwise exactly the rows of
\* the most recent year present; it is not empty when a row has a known
\* year.
C18_ReportingYearFilter ==
    runs > 0 =>
        /\ RowsOfYear(today.year) # {} => Indexes(usmap) = RowsOfYear(today.year)
        /\ (RowsOfYear(today.year) = {} /\ KnownYears # {}) =>
              Indexes(usmap) = RowsOfYear(CHOOSE y \in KnownYears :
                                             \A z \in KnownYears : z <= y)
        /\ KnownYears # {} => Len(usmap) > 0

\* C19: the case rate of a row whose population is unknown is missing, not
\* 0; with a known population and count it is cases / population x 100,000
\* rounded to 2 decimals (held in hundredths: 100 cases per 1,000,000 is
\* 1000).
C19_CaseRate ==
    \A i \in DOMAIN usmap :
        LET population == population_of(usmap[i].geography)
        IN  /\ population = NA => case_rates[i] = NA
            /\ (population # NA /\ usmap[i].cases # NA) =>
                  LET err == case_rates[i][1] * population[1]
                                 - usmap[i].cases[1] * 100000 * 100
                  IN  2 * err <= population[1] /\ -2 * err <= population[1]

RowSet(rows) == {rows[i] : i \in DOMAIN rows}

\* C21: whatever the order in which the six scrapes of a run finish (some
\* of them failing), the set of emitted records and the rows of the ledger
\* after the run are those of the run in the order TX, NM, UT, CA, NV, AZ.
C21_OrderIndependent ==
    runs > 0 =>
        LET seq == load_weekly_surveillance_data(ledger_before, today, runs, responses)
        IN  /\ RowSet(emitted) = RowSet(seq.emitted)
            /\ ledger.status = seq.ledger.status
            /\ RowSet(ledger.rows) = RowSet(seq.ledger.rows)

\* a run in another order, with a failed scrape, over a ledger that held
\* rows of its week: its batch is not the batch of the order of the code
C21_Witness ==
    /\ runs = 2
    /\ order # StateOrder
    /\ \E s \in States : ~responses[s].ok
    /\ \E i \in DOMAIN batch : Len(RowsOf(ledger_before.rows, LedgerKey(batch[i]))) > 0
    /\ batch # scrape_all_states(today, runs, responses)

\* C22: in every run that reaches the weekly-surveillance step the ledger
\* file is read exactly once and written exactly once.
C22_LedgerReadOnceWrittenOnce ==
    runs > 0 => (ledger_reads = 1 /\ ledger_writes = 1)

\* keys of the rows of a table
KeysOf(rows) == {LedgerKey(rows[i]) : i \in DOMAIN rows}

\* C24: an upsert deletes no key: every key of the ledger before a run is
\* in the ledger after it, and the rows of the keys that are not in the
\* batch of the run are unchanged.
C24_UpsertKeepsOtherKeys ==
    runs > 0 =>
        /\ KeysOf(ledger_before.rows) \subseteq KeysOf(ledger.rows)
        /\ \A key \in KeysOf(ledger_before.rows) \ KeysOf(batch) :
               RowsOf(ledger.rows, key) = RowsOf(ledger_before.rows, key)

\* a run over a ledger that holds rows of another week with a count
C24_Witness ==
    /\ runs > 1
    /\ \E key \in KeysOf(ledger_before.rows) \ KeysOf(batch) :
          /\ Len(RowsOf(ledger.rows, key)) = 1
          /\ RowsOf(ledger.rows, key)[1].current_week_cases > 0

(***************************************************************************)
(* Properties of the epi-week.                                             *)
(***************************************************************************)
\* ordinal of the Sunday on or before January 4 of a year
AnchorOf(year) ==
    LET jan4 == toordinal(Date(year, 4))
    IN  CHOOSE o \in (jan4 - 6) .. jan4 : o % 7 = 0

\* 1 + the number of whole weeks from the anchor of the date's year
WeekNumber(d) == ((toordinal(d) - AnchorOf(d.year)) \div 7) + 1

\* the pair the algorithm of the specification gives for a date
SpecifiedEpiWeek(d) ==
    LET n == WeekNumber(d)
    IN  IF n <= 0 THEN <<52, d.year - 1>>
        ELSE IF n <= 52 THEN <<n, d.year>>
        ELSE IF weekday(Date(d.year + 1, 4)) \in 0 .. 3 THEN <<1, d.year + 1>>
        ELSE <<53, d.year>>

\* the (epi_week, epi_year) pair of a record
EpiOf(r) == <<r.epi_week, r.epi_year>>

DaysSinceSunday(d) == (weekday(d) + 1) % 7

\* C25: the dates of one Sunday-to-Saturday week get one pair: the pair
\* of the records of a run is the pair of every earlier day of its week.
C25_OneKeyPerWeek ==
    runs > 0 =>
        \A k \in 0 .. DaysSinceSunday(today) :
            \A i \in DOMAIN batch :
                get_current_epi_week(AddDays(today, -k)) = EpiOf(batch[i])

\* (epi_year, epi_week) of p is not after that of q
NotAfter(p, q) == p[2] < q[2] \/ (p[2] = q[2] /\ p[1] <= q[1])

\* C26: the pair is monotone in time: the pair of each of the seven days
\* before a run is not after the pair of the records of the run.
C26_MonotoneInTime ==
    runs > 0 =>
        \A k \in 1 .. 7 :
            \A i \in DOMAIN batch :
                NotAfter(get_current_epi_week(AddDays(today, -k)), EpiOf(batch[i]))

\* C28: every fallback record carries the pair get_current_epi_week
\* returns for the same date.
C28_FallbackPairMatches ==
    \A i \in DOMAIN fallback : EpiOf(fallback[i]) = get_current_epi_week(today)

\* C29: every record a run emits (scraped, zero-filled or fallback) and
\* every row of the ledger has its epi_week in 1 .. 53.
C29_EpiWeekInRange ==
    /\ \A i \in DOMAIN batch : batch[i].epi_week \in 1 .. 53
    /\ \A i \in DOMAIN emitted : emitted[i].epi_week \in 1 .. 53
    /\ \A i \in DOMAIN fallback : fallback[i].epi_week \in 1 .. 53
    /\ \A i \in DOMAIN ledger.rows : ledger.rows[i].epi_week \in 1 .. 53

\* a run in the first days of January, before the anchor of the year, with
\* a zero-filled record, its rows in the ledger and the fallback generated
C29_Witness ==
    /\ runs = 1
    /\ WeekNumber(today) <= 0
    /\ ~responses[StateOrder[1]].ok
    /\ Len(emitted) = Len(StateOrder)
    /\ Len(ledger.rows) = Len(StateOrder)
    /\ Len(fallback) = Len(StateOrder)
    /\ fallback[1].epi_week = 52

(***************************************************************************)
(* Properties of a failed scrape after a successful one.                   *)
(***************************************************************************)
\* the state's scrape failed in the last run and the ledger held, at the
\* start of the run, a row of the same key written by a successful scrape
FailedOverScraped(i) ==
    /\ ~responses[batch[i].state].ok
    /\ \E j \in DOMAIN ledger_before.rows :
          /\ LedgerKey(ledger_before.rows[j]) = LedgerKey(batch[i])
          /\ ledger_before.rows[j].source_url # "Data unavailable"

\* C27 as claimed: a zero-filled record never replaces a row of its key
\* that a successful scrape wrote earlier in the same epi-week.
C27_ZeroFilledNeverReplaces ==
    \A i \in DOMAIN batch :
        FailedOverScraped(i) =>
            RowsOf(ledger.rows, LedgerKey(batch[i]))
                = RowsOf(ledger_before.rows, LedgerKey(batch[i]))

\* C27 as amended: a zero-filled record replaces the row of its key that a
\* successful scrape wrote earlier in the same epi-week (last write wins):
\* the ledger then holds count 0 and no source for the key.
C27_ZeroFilledSupersedes ==
    \A i \in DOMAIN batch :
        FailedOverScraped(i) =>
            LET found == RowsOf(ledger.rows, LedgerKey(batch[i]))
            IN  /\ Len(found) = 1
                /\ found[1].current_week_cases = 0
                /\ found[1].source_url = "Data unavailable"

\* a failed scrape in the epi-week in which the state's page had given a
\* count
C27_Witness ==
    \E i \in DOMAIN batch :
        /\ FailedOverScraped(i)
        /\ RowsOf(ledger_before.rows, LedgerKey(batch[i]))[1].current_week_cases > 0

(***************************************************************************)
(* Properties of the output tree.                                          *)
(***************************************************************************)
\* C30: a run of main writes to the output tree only when fetch_all_data
\* returned a result and the three critical datasets passed validation; a
\* run that exits non-zero leaves the output tree unchanged.
C30_NoOutputOnAbort ==
    [][/\ output' # output =>
            /\ fetch_result' = "processed"
            /\ critical_valid(process_data(raw')[1])
            /\ exit_code' = Some(0)
       /\ (runs' # runs /\ exit_code' # Some(0)) => output' = output]_vars

\* a run that fetched a result whose critical data failed validation, after
\* a run that wrote the index page and the ten chart and table pages
C30_Witness ==
    /\ exit_code = Some(1)
    /\ fetch_result = "processed"
    /\ Cardinality(output) = 1 + Len(html_pages)
    /\ \A f \in output : f.written < runs

====
